---- MODULE Spec2Model ----
(***************************************************************************)
(* Constraint-tracking walkers of tilelang (src/transform/common):         *)
(*   constraint.h      Constr, ConstrSet                                   *)
(*   constr_visitor.h  ConstrVisitor  (read-only walker)                   *)
(*   constr_mutator.h  ConstrMutator  (rewriting walker)                   *)
(*                                                                         *)
(* A walk is modelled as a small-step machine.  ctrl is the C++ call stack *)
(* of visit methods (one frame per active VisitExpr_/VisitStmt_), each     *)
(* frame holding its position pc, the number of live Guard objects and the *)
(* rewritten children computed so far.  constr_stack_ is the walker's      *)
(* member of that name.  heap is the object store of IR nodes (an object   *)
(* is identified by its index, so same_as is equality of indices).         *)
(***************************************************************************)
EXTENDS Integers, Sequences, FiniteSets, TLC

VARIABLES
  walker,         \* "visitor" (ConstrVisitor) or "mutator" (ConstrMutator)
  mode,           \* "idle" | "run" | "unwinding" | "done" | "aborted"
  constr_stack_,  \* std::vector<Constr> constr_stack_
  ctrl,           \* call stack of visit frames, innermost last
  heap,           \* IR objects; heap[i] is the object with identity i
  ret,            \* value returned by the visit that returned last
  visited,        \* history: one entry per visit entered, with the stack seen
  last_return,    \* history: the visit that was left last (return or unwind)
  walks,          \* number of walks started on this walker object
  rewrites        \* number of leaves the override has replaced in this walk

\* A ConstrSet in the hands of a pass, and the analyzer the pass holds.
VARIABLES
  constrs_,       \* std::vector<Constr> constrs_ of the ConstrSet
  analyzer,       \* arith::Analyzer of the pass: the calls made on it so far
  last_call,      \* history: the last operation called, its inputs and result
  inserted,       \* history: the facts given to AddConstr / Extend, in order
  proved          \* history: first CanProve result per query on this set

svars == <<constrs_, analyzer, last_call, inserted, proved>>

vars == <<walker, mode, constr_stack_, ctrl, heap, ret, visited, last_return,
          walks, rewrites, svars>>

\* Number of successive walks run on one walker object.
MaxWalks == 2
\* Number of leaves the subclass override replaces during one walk.
MaxRewrites == 2

Null == 0

(***************************************************************************)
(* Input trees.  Every position of a tree is its own object.               *)
(***************************************************************************)
Var == [kind |-> "Var"]
StringImm == [kind |-> "StringImm"]
Evaluate == [kind |-> "Evaluate"]
IterVar(v) == [kind |-> "IterVar", var |-> v]
Select(c, t, f) ==
  [kind |-> "Select", condition |-> c, true_value |-> t, false_value |-> f]
Call(o, as) == [kind |-> "Call", op |-> o, args |-> as]
LetStmt(v, val, b) == [kind |-> "LetStmt", var |-> v, value |-> val, body |-> b]
AttrStmt(n, k, val, b) ==
  [kind |-> "AttrStmt", node |-> n, attr_key |-> k, value |-> val, body |-> b]
AssertStmt(c, m, b) ==
  [kind |-> "AssertStmt", condition |-> c, message |-> m, body |-> b]
IfThenElse(c, t, e) ==
  [kind |-> "IfThenElse", condition |-> c, then_case |-> t, else_case |-> e]
For(v, mn, ex, k, b, tb, an) ==
  [kind |-> "For", loop_var |-> v, min |-> mn, extent |-> ex, fkind |-> k,
   body |-> b, thread_binding |-> tb, annotations |-> an]
While(c, b) == [kind |-> "While", condition |-> c, body |-> b]

Forest ==
  << Select(2, 3, 4), Var, Var, Var,                                  \* 1-4
     Call("tir.if_then_else", <<6, 7, 8>>), Var, Var, Var,             \* 5-8
     Call("tir.exp", <<10, 11>>), Var, Var,                            \* 9-11
     LetStmt("x", 13, 14), Var, LetStmt("y", 15, 16), Var, Evaluate,   \* 12-16
     AttrStmt(18, "tl.assume", 19, 20), Var, Var, Evaluate,            \* 17-20
     AttrStmt(22, "thread_extent", 23, 24), IterVar("tx"), Var,
     Evaluate,                                                        \* 21-24
     AttrStmt(26, "virtual_thread", 27, 28), IterVar("vt"), Var,
     Evaluate,                                                        \* 25-28
     AttrStmt(30, "pragma_unroll", 31, 32), Var, Var, Evaluate,        \* 29-32
     AssertStmt(34, 35, 36), Var, StringImm, Evaluate,                 \* 33-36
     IfThenElse(38, 39, 40), Var, Evaluate, Evaluate,                  \* 37-40
     IfThenElse(42, 43, Null), Var, Evaluate,                          \* 41-43
     For("i", 45, 46, "kSerial", 47, "none", "a0"), Var, Var,
     Evaluate,                                                        \* 44-47
     For("j", 49, 50, "kParallel", 51, "none", "a1"), Var, Var,
     Evaluate,                                                        \* 48-51
     For("k", 53, 54, "kVectorized", 55, "tb", "a2"), Var, Var,
     Evaluate,                                                        \* 52-55
     While(57, 58), Var, Evaluate,                                     \* 56-58
     IfThenElse(60, 64, 70), Select(61, 62, 63), Var, Var, Var,        \* 59-63
     For("n", 65, 66, "kUnrolled", 67, "none", "a3"), Var, Var,
     While(68, 69), Var, Evaluate,                                     \* 64-69
     AssertStmt(71, 72, 73), Var, StringImm,
     AttrStmt(74, "tl.assume", 75, 76), Var, Var, Evaluate,            \* 70-76
     Select(78, 79, 83), Var, Select(80, 81, 82), Var, Var, Var,
     Call("tir.if_then_else", <<84, 85, 86>>), Var, Var, Var,          \* 77-86
     For("m", 88, 89, "kSerial", 90, "none", "a4"), Var, Var,
     IfThenElse(91, 92, 93), Var, Evaluate,
     IfThenElse(94, 95, Null), Var, Evaluate                          \* 87-95
  >>

Roots == {1, 5, 9, 12, 17, 21, 25, 29, 33, 37, 41, 44, 48, 52, 56, 59, 77, 87}

IsLeaf(h, n) == h[n].kind \in {"Var", "StringImm", "Evaluate", "IterVar"}

\* The children a structural recursion descends into, in field order.
Children(h, n) ==
  LET o == h[n] IN
  CASE o.kind = "Select" -> <<o.condition, o.true_value, o.false_value>>
    [] o.kind = "Call" -> o.args
    [] o.kind = "LetStmt" -> <<o.value, o.body>>
    [] o.kind = "AttrStmt" -> <<o.value, o.body>>
    [] o.kind = "AssertStmt" -> <<o.condition, o.message, o.body>>
    [] o.kind = "IfThenElse" ->
         IF o.else_case = Null THEN <<o.condition, o.then_case>>
         ELSE <<o.condition, o.then_case, o.else_case>>
    [] o.kind = "For" -> <<o.min, o.extent, o.body>>
    [] o.kind = "While" -> <<o.condition, o.body>>
    [] OTHER -> <<>>

RECURSIVE Subtree(_, _)
Subtree(h, n) ==
  LET cs == Children(h, n) IN
  {n} \cup UNION {Subtree(h, cs[i]) : i \in 1..Len(cs)}

(***************************************************************************)
(* Expressions built by the walkers for the facts they push.               *)
(***************************************************************************)
NullExpr == [t |-> "null", e |-> 0]
Ref(e) == [t |-> "node", e |-> e]
\* The negation left out: the fact of the condition itself.
NotForgotten(e) == [t |-> "node", e |-> e]

\* tir::Not(cond): a NotNode over cond
Not(e) == [t |-> "not", e |-> e]
\* op->extent > 0 for a non-constant extent: a GTNode over extent and 0
GT0(e) == [t |-> "gt0", e |-> e]
\* tir::make_zero(dtype)
make_zero == [t |-> "zero", e |-> 0]
NullRange == [min |-> NullExpr, extent |-> NullExpr]
FromMinExtent(mn, ex) == [min |-> mn, extent |-> ex]

(***************************************************************************)
(* Constr (constraint.h).  site is a history field: the construct whose    *)
(* visit pushed the fact.                                                  *)
(***************************************************************************)
ConstrExpr(constr, is_assume, site) ==
  [kind |-> "kConstr", is_assume |-> is_assume, var |-> "", value |-> constr,
   range |-> NullRange, site |-> site]
ConstrBindValue(var, val, site) ==
  [kind |-> "kBindValue", is_assume |-> FALSE, var |-> var, value |-> val,
   range |-> NullRange, site |-> site]
ConstrBindRange(var, range, site) ==
  [kind |-> "kBindRange", is_assume |-> FALSE, var |-> var, value |-> NullExpr,
   range |-> range, site |-> site]

(***************************************************************************)
(* Guard / MakeGuard (the same in both walkers).                           *)
(***************************************************************************)
\* constr_stack_.push_back(Constr(args...)); return Guard{constr_stack_};
MakeGuard(stk, c) == Append(stk, c)

\* A Guard whose destructor does not pop.
GuardLeak(stk) == stk

\* A Guard copied on return from MakeGuard, the copy and the original each
\* popping on destruction.
GuardReleaseTwice(stk) == SubSeq(stk, 1, Len(stk) - 2)

\* ~Guard() { constrs.pop_back(); }
GuardRelease(stk) == SubSeq(stk, 1, Len(stk) - 1)

\* Scope exit that destroys one guard only, however many the frame holds.
ReleaseGuardsOne(stk, g) == IF g = 0 THEN stk ELSE GuardRelease(stk)

\* Destruction of the g Guard objects alive in one frame, the scope being
\* left by normal exit or by stack unwinding.
RECURSIVE ReleaseGuards(_, _)
ReleaseGuards(stk, g) ==
  IF g = 0 THEN stk ELSE ReleaseGuards(GuardRelease(stk), g - 1)

\* Unwinding that runs no destructor (a pop written after the visit call
\* instead of a Guard object).
UnwindFrameNoDtor(stk, g) == stk

\* Stack unwinding out of a frame: the destructors of its g live guards run.
UnwindFrame(stk, g) == ReleaseGuards(stk, g)

(***************************************************************************)
(* Call stack of visit methods.                                            *)
(***************************************************************************)
Frame(n, stk) == [node |-> n, pc |-> 0, guards |-> 0, entry |-> stk, r |-> <<>>]
Top == ctrl[Len(ctrl)]
op == heap[Top.node]
NoReturn ==
  [node |-> Null, how |-> "none", result |-> Null, entry |-> <<>>,
   exit |-> <<>>, news |-> <<>>, fresh |-> FALSE]

\* Dispatch of VisitExpr / VisitStmt on the node type of the innermost frame.
Running(w, k) ==
  /\ mode = "run"
  /\ walker = w
  /\ ctrl # <<>>
  /\ op.kind = k

\* The running method leaves stk on the stack (after its MakeGuard calls and
\* the scope exits that precede the call), holds g live guards and rs
\* rewritten children, and calls VisitExpr / VisitStmt on child.
CallChild(role, child, stk, g, rs) ==
  /\ constr_stack_' = stk
  /\ ctrl' = Append([ctrl EXCEPT ![Len(ctrl)] =
                       [@ EXCEPT !.pc = @ + 1, !.guards = g, !.r = rs]],
                    Frame(child, stk))
  /\ visited' = Append(visited, [node |-> child, parent |-> Top.node,
                                 role |-> role, stack |-> stk,
                                 pentry |-> Top.entry, pnews |-> rs])
  /\ UNCHANGED <<svars, walker, mode, heap, ret, last_return, walks, rewrites>>

\* The running method returns result; its scope exits have left stk; h is the
\* object store after the allocations it made; rs its rewritten children.
Return(stk, result, h, rs) ==
  /\ constr_stack_' = stk
  /\ ctrl' = SubSeq(ctrl, 1, Len(ctrl) - 1)
  /\ ret' = result
  /\ heap' = h
  /\ last_return' = [node |-> Top.node, how |-> "return", result |-> result,
                     entry |-> Top.entry, exit |-> stk, news |-> rs,
                     fresh |-> (h # heap)]
  /\ mode' = IF Len(ctrl) = 1 THEN "done" ELSE "run"
  /\ UNCHANGED <<svars, walker, visited, walks, rewrites>>

(***************************************************************************)
(* Constr and ConstrSet operations (constraint.h).  Expressions are terms  *)
(* over integer variables; Eval is their value, 1 and 0 for true and false. *)
(***************************************************************************)
\* Size of a ConstrSet.
MaxSetLen == 2
\* Number of calls made on the analyzer the pass holds.
MaxCalls == 2
\* Variables take the values 0..MaxVal.
MaxVal == 2

EInt(n) == [int |-> n]
EVar(v) == [var |-> v]
EAdd(a, b) == [add |-> <<a, b>>]
EEq(a, b) == [eq |-> <<a, b>>]
EGe(a, b) == [ge |-> <<a, b>>]
ELt(a, b) == [lt |-> <<a, b>>]
EAnd(a, b) == [and |-> <<a, b>>]
Is(e, t) == t \in DOMAIN e

SetVars == {"x", "y"}
Envs == [SetVars -> 0..MaxVal]

RECURSIVE Eval(_, _)
Eval(e, env) ==
  CASE Is(e, "int") -> e.int
    [] Is(e, "var") -> env[e.var]
    [] Is(e, "add") -> Eval(e.add[1], env) + Eval(e.add[2], env)
    [] Is(e, "eq") ->
         IF Eval(e.eq[1], env) = Eval(e.eq[2], env) THEN 1 ELSE 0
    [] Is(e, "ge") ->
         IF Eval(e.ge[1], env) >= Eval(e.ge[2], env) THEN 1 ELSE 0
    [] Is(e, "lt") ->
         IF Eval(e.lt[1], env) < Eval(e.lt[2], env) THEN 1 ELSE 0
    [] Is(e, "and") ->
         IF Eval(e.and[1], env) = 1 /\ Eval(e.and[2], env) = 1 THEN 1 ELSE 0

\* operator+ on PrimExpr (range->min + range->extent): constants are folded
\* and a zero operand is dropped, otherwise an AddNode is built.
PlusOp(a, b) ==
  IF Is(a, "int") /\ Is(b, "int") THEN EInt(a.int + b.int)
  ELSE IF Is(a, "int") /\ a.int = 0 THEN b
  ELSE IF Is(b, "int") /\ b.int = 0 THEN a
  ELSE EAdd(a, b)

\* tir::Substitute(expr, subs): every variable in the map is replaced by its
\* image, the term is otherwise rebuilt as it is.
RECURSIVE Subst(_, _)
Subst(e, subs) ==
  CASE Is(e, "int") -> e
    [] Is(e, "var") -> IF e.var \in DOMAIN subs THEN subs[e.var] ELSE e
    [] Is(e, "add") -> EAdd(Subst(e.add[1], subs), Subst(e.add[2], subs))
    [] Is(e, "eq") -> EEq(Subst(e.eq[1], subs), Subst(e.eq[2], subs))
    [] Is(e, "ge") -> EGe(Subst(e.ge[1], subs), Subst(e.ge[2], subs))
    [] Is(e, "lt") -> ELt(Subst(e.lt[1], subs), Subst(e.lt[2], subs))
    [] Is(e, "and") -> EAnd(Subst(e.and[1], subs), Subst(e.and[2], subs))

\* The range predicate without the lower bound added to the extent.
ToGenericConstrNoMin(c) ==
  CASE c.kind = "kConstr" -> c.value
    [] c.kind = "kBindValue" -> EEq(EVar(c.var), c.value)
    [] c.kind = "kBindRange" ->
         EAnd(EGe(EVar(c.var), c.range.min),
              ELt(EVar(c.var), c.range.extent))

\* PrimExpr Constr::ToGenericConstr() const
ToGenericConstr(c) ==
  CASE c.kind = "kConstr" -> c.value
    [] c.kind = "kBindValue" -> EEq(EVar(c.var), c.value)
    [] c.kind = "kBindRange" ->
         EAnd(EGe(EVar(c.var), c.range.min),
              ELt(EVar(c.var), PlusOp(c.range.min, c.range.extent)))

\* A substitution that keeps the shape of a value binding.
ConstrSubstituteKeepBinding(c, subs) ==
  IF c.kind = "kBindValue"
  THEN ConstrBindValue(c.var, Subst(c.value, subs), Null)
  ELSE ConstrExpr(Subst(ToGenericConstr(c), subs), FALSE, Null)

\* Constr Constr::Substitute(ffi::Map<tir::Var, PrimExpr> subs) const
ConstrSubstitute(c, subs) ==
  ConstrExpr(Subst(ToGenericConstr(c), subs), FALSE, Null)

\* void Constr::Populate(arith::Analyzer &analyzer) const: the call made on
\* the analyzer, appended to the calls it has received.
ConstrPopulate(c, an) ==
  CASE c.kind = "kConstr" -> Append(an, [EnterConstraint |-> c.value])
    [] c.kind = "kBindValue" -> Append(an, [Bind |-> c.var, value |-> c.value])
    [] c.kind = "kBindRange" -> Append(an, [Bind |-> c.var, range |-> c.range])

\* ConstrSet ConstrSet::Substitute(subs) const: the loop from element i on.
RECURSIVE SubstituteLoop(_, _, _, _)
SubstituteLoop(cs, i, subs, new_set) ==
  IF i > Len(cs) THEN new_set
  ELSE SubstituteLoop(cs, i + 1, subs,
                      Append(new_set, ConstrSubstitute(cs[i], subs)))

ConstrSetSubstitute(cs, subs) == SubstituteLoop(cs, 1, subs, <<>>)

\* void ConstrSet::Populate(analyzer) const: the loop from element i on.
RECURSIVE PopulateLoop(_, _, _)
PopulateLoop(cs, i, an) ==
  IF i > Len(cs) THEN an
  ELSE PopulateLoop(cs, i + 1, ConstrPopulate(cs[i], an))

\* A replay of the facts from the last one to the first.
RECURSIVE PopulateBackwards(_, _, _)
PopulateBackwards(cs, i, an) ==
  IF i < 1 THEN an
  ELSE PopulateBackwards(cs, i - 1, ConstrPopulate(cs[i], an))

ConstrSetPopulateReversed(cs, an) == PopulateBackwards(cs, Len(cs), an)

ConstrSetPopulate(cs, an) == PopulateLoop(cs, 1, an)

\* What a call made on the analyzer states about the variables.
CallHolds(call, env) ==
  CASE Is(call, "EnterConstraint") -> Eval(call.EnterConstraint, env) = 1
    [] Is(call, "value") -> env[call.Bind] = Eval(call.value, env)
    [] Is(call, "range") ->
         /\ Eval(call.range.min, env) <= env[call.Bind]
         /\ env[call.Bind]
              < Eval(call.range.min, env) + Eval(call.range.extent, env)

\* analyzer.CanProve(expr) of arith::Analyzer, which lies outside this
\* repository: a function of the calls the analyzer received and of expr,
\* here what those calls entail over the values 0..MaxVal.
AnalyzerCanProve(an, expr) ==
  \A env \in Envs :
    (\A k \in 1..Len(an) : CallHolds(an[k], env)) => Eval(expr, env) = 1

\* CanProve run on the analyzer the pass holds in place of its own.
ConstrSetCanProveHeld(cs, expr, held) ==
  AnalyzerCanProve(ConstrSetPopulate(cs, held), expr)

\* bool ConstrSet::CanProve(const PrimExpr &expr) const; held is the
\* analyzer of the caller, which the method has no access to.
ConstrSetCanProve(cs, expr, held) ==
  AnalyzerCanProve(ConstrSetPopulate(cs, <<>>), expr)

\* template <typename... Args> void AddConstr(Args... args)
AddConstr(cs, c) == Append(cs, c)

\* void Extend(const ConstrSet &other)
Extend(cs, other) == cs \o other

\* Facts, sets, substitutions and queries the pass works with.
FactPool ==
  { ConstrExpr(ELt(EVar("x"), EInt(1)), TRUE, Null),
    ConstrBindValue("y", EAdd(EVar("x"), EInt(1)), Null),
    ConstrBindRange("y", FromMinExtent(EVar("x"), EInt(2)), Null) }
SubsPool ==
  << [v \in {"x"} |-> EVar("y")],
     [v \in {"x", "y"} |->
        IF v = "x" THEN EInt(1) ELSE EAdd(EVar("x"), EInt(1))],
     [v \in {} |-> EInt(0)] >>
QueryPool == << ELt(EVar("y"), EInt(2)), ELt(EVar("x"), EInt(2)) >>
Queries == 1..Len(QueryPool)
NoCall == [op |-> "none"]
NoneProved == [q \in Queries |-> "none"]

Init ==
  /\ walker \in {"visitor", "mutator"}
  /\ mode = "idle"
  /\ constr_stack_ = <<>>
  /\ ctrl = <<>>
  /\ heap = Forest
  /\ ret = Null
  /\ visited = <<>>
  /\ last_return = NoReturn
  /\ walks = 0
  /\ rewrites = 0
  /\ constrs_ = <<>>
  /\ analyzer = <<>>
  /\ last_call = NoCall
  /\ inserted = <<>>
  /\ proved = NoneProved

\* The pass calls the walker (operator() / VisitStmt / VisitExpr) on a tree.
\* The walker object, and so constr_stack_, is the one of the earlier walk.
StartWalk ==
  /\ mode \in {"idle", "done", "aborted"}
  /\ walks < MaxWalks
  /\ \E root \in Roots :
       /\ ctrl' = <<Frame(root, constr_stack_)>>
       /\ visited' = <<[node |-> root, parent |-> Null, role |-> "root",
                        stack |-> constr_stack_, pentry |-> constr_stack_,
                        pnews |-> <<>>]>>
  /\ mode' = "run"
  /\ heap' = Forest
  /\ ret' = Null
  /\ last_return' = NoReturn
  /\ walks' = walks + 1
  /\ rewrites' = 0
  /\ UNCHANGED <<svars, walker, constr_stack_>>

\* A leaf visit overridden by the pass that subclasses ConstrVisitor: it
\* reads constr_stack_ and returns, or throws.
VisitorLeaf ==
  /\ mode = "run"
  /\ walker = "visitor"
  /\ ctrl # <<>>
  /\ IsLeaf(heap, Top.node)
  /\ \E outcome \in {"ok", "throw"} :
       IF outcome = "ok"
       THEN Return(constr_stack_, Null, heap, <<>>)
       ELSE /\ mode' = "unwinding"
            /\ UNCHANGED <<svars, walker, constr_stack_, ctrl, heap, ret, visited,
                           last_return, walks, rewrites>>

\* A leaf visit overridden by the pass that subclasses ConstrMutator: it
\* returns the leaf itself, returns a new object in its place, or throws.
MutatorLeaf ==
  /\ mode = "run"
  /\ walker = "mutator"
  /\ ctrl # <<>>
  /\ IsLeaf(heap, Top.node)
  /\ \E outcome \in {"same", "changed", "throw"} :
       CASE outcome = "same" ->
              /\ Return(constr_stack_, Top.node, heap, <<>>)
              /\ UNCHANGED rewrites
         [] outcome = "changed" ->
              /\ rewrites < MaxRewrites
              /\ constr_stack_' = constr_stack_
              /\ ctrl' = SubSeq(ctrl, 1, Len(ctrl) - 1)
              /\ ret' = Len(heap) + 1
              /\ heap' = Append(heap, op)
              /\ last_return' = [node |-> Top.node, how |-> "return",
                                 result |-> Len(heap) + 1,
                                 entry |-> Top.entry, exit |-> constr_stack_,
                                 news |-> <<>>, fresh |-> TRUE]
              /\ mode' = IF Len(ctrl) = 1 THEN "done" ELSE "run"
              /\ rewrites' = rewrites + 1
              /\ UNCHANGED <<svars, walker, visited, walks>>
         [] outcome = "throw" ->
              /\ mode' = "unwinding"
              /\ UNCHANGED <<svars, walker, constr_stack_, ctrl, heap, ret, visited,
                             last_return, walks, rewrites>>

\* Stack unwinding: the exception leaves the innermost frame, destroying the
\* Guard objects alive in it; out of the outermost frame it reaches the pass.
Unwind ==
  /\ mode = "unwinding"
  /\ IF ctrl = <<>>
     THEN /\ mode' = "aborted"
          /\ UNCHANGED <<svars, walker, constr_stack_, ctrl, heap, ret, visited,
                         last_return, walks, rewrites>>
     ELSE /\ constr_stack_' = UnwindFrame(constr_stack_, Top.guards)
          /\ ctrl' = SubSeq(ctrl, 1, Len(ctrl) - 1)
          /\ last_return' = [node |-> Top.node, how |-> "unwind",
                             result |-> Null, entry |-> Top.entry,
                             exit |-> constr_stack_', news |-> Top.r,
                             fresh |-> FALSE]
          /\ UNCHANGED <<svars, walker, mode, heap, ret, visited, walks, rewrites>>

(***************************************************************************)
(* ConstrVisitor (constr_visitor.h).  Base::VisitStmt_(op) is the          *)
(* structural recursion of tir::StmtVisitor: it visits the expression      *)
(* fields of op and then its body, in field order.                         *)
(***************************************************************************)
\* ConstrVisitor::VisitIfThenElseExpr(cond, true_value, false_value)
VisitorIfThenElseExpr(cond, true_value, false_value) ==
  CASE Top.pc = 0 ->
         CallChild("true_value", true_value,
                   MakeGuard(constr_stack_,
                             ConstrExpr(Ref(cond), FALSE, Top.node)),
                   1, <<>>)
    [] Top.pc = 1 ->
         CallChild("false_value", false_value,
                   MakeGuard(GuardRelease(constr_stack_),
                             ConstrExpr(Not(cond), FALSE, Top.node)),
                   1, <<>>)
    [] Top.pc = 2 ->
         Return(GuardRelease(constr_stack_), Null, heap, <<>>)

\* void VisitExpr_(const tir::SelectNode *op)
VisitorSelect ==
  /\ Running("visitor", "Select")
  /\ VisitorIfThenElseExpr(op.condition, op.true_value, op.false_value)

\* void VisitExpr_(const tir::CallNode *op)
VisitorCall ==
  /\ Running("visitor", "Call")
  /\ IF op.op = "tir.if_then_else"
     THEN VisitorIfThenElseExpr(op.args[1], op.args[2], op.args[3])
     ELSE IF Top.pc < Len(op.args)
          THEN CallChild("args", op.args[Top.pc + 1], constr_stack_, 0, <<>>)
          ELSE Return(constr_stack_, Null, heap, <<>>)

\* void VisitStmt_(const tir::LetStmtNode *op)
VisitorLetStmt ==
  /\ Running("visitor", "LetStmt")
  /\ CASE Top.pc = 0 ->
            CallChild("value", op.value,
                      MakeGuard(constr_stack_,
                                ConstrBindValue(op.var, Ref(op.value),
                                                Top.node)),
                      1, <<>>)
       [] Top.pc = 1 ->
            CallChild("body", op.body, constr_stack_, 1, <<>>)
       [] Top.pc = 2 ->
            Return(GuardRelease(constr_stack_), Null, heap, <<>>)

\* void VisitStmt_(const tir::AttrStmtNode *op)
VisitorAttrStmt ==
  /\ Running("visitor", "AttrStmt")
  /\ CASE Top.pc = 0 ->
            IF op.attr_key = "tl.assume"
            THEN CallChild("value", op.value,
                           MakeGuard(constr_stack_,
                                     ConstrExpr(Ref(op.node), TRUE, Top.node)),
                           1, <<>>)
            ELSE IF op.attr_key \in {"thread_extent", "virtual_thread"}
            THEN CallChild("value", op.value,
                           MakeGuard(constr_stack_,
                                     ConstrBindRange(
                                       heap[op.node].var,
                                       FromMinExtent(make_zero, Ref(op.value)),
                                       Top.node)),
                           1, <<>>)
            ELSE CallChild("value", op.value, constr_stack_, 0, <<>>)
       [] Top.pc = 1 ->
            CallChild("body", op.body, constr_stack_, Top.guards, <<>>)
       [] Top.pc = 2 ->
            Return(ReleaseGuards(constr_stack_, Top.guards), Null, heap, <<>>)

\* void VisitStmt_(const tir::AssertStmtNode *op)
VisitorAssertStmt ==
  /\ Running("visitor", "AssertStmt")
  /\ CASE Top.pc = 0 ->
            CallChild("condition", op.condition,
                      MakeGuard(constr_stack_,
                                ConstrExpr(Ref(op.condition), FALSE, Top.node)),
                      1, <<>>)
       [] Top.pc = 1 ->
            CallChild("message", op.message, constr_stack_, 1, <<>>)
       [] Top.pc = 2 ->
            CallChild("body", op.body, constr_stack_, 1, <<>>)
       [] Top.pc = 3 ->
            Return(GuardRelease(constr_stack_), Null, heap, <<>>)

\* void VisitStmt_(const tir::IfThenElseNode *op)
VisitorIfThenElse ==
  /\ Running("visitor", "IfThenElse")
  /\ CASE Top.pc = 0 ->
            CallChild("then_case", op.then_case,
                      MakeGuard(constr_stack_,
                                ConstrExpr(Ref(op.condition), FALSE, Top.node)),
                      1, <<>>)
       [] Top.pc = 1 ->
            IF op.else_case # Null
            THEN CallChild("else_case", op.else_case,
                           MakeGuard(GuardRelease(constr_stack_),
                                     ConstrExpr(Not(op.condition), FALSE,
                                                Top.node)),
                           1, <<>>)
            ELSE Return(GuardRelease(constr_stack_), Null, heap, <<>>)
       [] Top.pc = 2 ->
            Return(GuardRelease(constr_stack_), Null, heap, <<>>)

\* void VisitStmt_(const tir::ForNode *op): both arms of the test on
\* op->kind push the same two guards and recurse the same way.
VisitorFor ==
  /\ Running("visitor", "For")
  /\ CASE Top.pc = 0 ->
            LET guard_1 == ConstrBindRange(
                             op.loop_var,
                             FromMinExtent(Ref(op.min), Ref(op.extent)),
                             Top.node)
                guard_2 == ConstrExpr(GT0(op.extent), FALSE, Top.node)
            IN IF op.fkind \in {"kParallel", "kVectorized"}
               THEN CallChild("min", op.min,
                              MakeGuard(MakeGuard(constr_stack_, guard_1),
                                        guard_2),
                              2, <<>>)
               ELSE CallChild("min", op.min,
                              MakeGuard(MakeGuard(constr_stack_, guard_1),
                                        guard_2),
                              2, <<>>)
       [] Top.pc = 1 ->
            CallChild("extent", op.extent, constr_stack_, 2, <<>>)
       [] Top.pc = 2 ->
            CallChild("body", op.body, constr_stack_, 2, <<>>)
       [] Top.pc = 3 ->
            Return(ReleaseGuards(constr_stack_, 2), Null, heap, <<>>)

\* void VisitStmt_(const tir::WhileNode *op)
VisitorWhile ==
  /\ Running("visitor", "While")
  /\ CASE Top.pc = 0 ->
            CallChild("body", op.body,
                      MakeGuard(constr_stack_,
                                ConstrExpr(Ref(op.condition), FALSE, Top.node)),
                      1, <<>>)
       [] Top.pc = 1 ->
            Return(GuardRelease(constr_stack_), Null, heap, <<>>)

(***************************************************************************)
(* ConstrMutator (constr_mutator.h).                                       *)
(***************************************************************************)
\* tvm::ffi::GetRef<tir::Stmt>(op): the object visited itself
Reuse(h, n) == [result |-> n, heap |-> h]
\* a node constructor: a new object
Alloc(h, o) == [result |-> Len(h) + 1, heap |-> Append(h, o)]

\* The method runs on to its next call with no return in between.
LocalStep(stk, g, rs) ==
  /\ constr_stack_' = stk
  /\ ctrl' = [ctrl EXCEPT ![Len(ctrl)] =
                [@ EXCEPT !.pc = @ + 1, !.guards = g, !.r = rs]]
  /\ UNCHANGED <<svars, walker, mode, heap, ret, visited, last_return, walks,
                 rewrites>>

\* lines 43-47 of VisitIfThenElseExpr: both arms construct a tir::Select
IfThenElseExprResult(h, cond, tv, fv, new_cond, new_tv, new_fv) ==
  IF new_cond = cond /\ new_tv = tv /\ new_fv = fv
  THEN Alloc(h, Select(cond, tv, fv))
  ELSE Alloc(h, Select(new_cond, new_tv, new_fv))

\* PrimExpr VisitIfThenElseExpr(cond, true_value, false_value)
MutatorIfThenElseExpr(cond, true_value, false_value) ==
  CASE Top.pc = 0 ->
         CallChild("condition", cond, constr_stack_, 0, <<>>)
    [] Top.pc = 1 ->
         CallChild("true_value", true_value,
                   MakeGuard(constr_stack_,
                             ConstrExpr(Ref(ret), FALSE, Top.node)),
                   1, <<ret>>)
    [] Top.pc = 2 ->
         CallChild("false_value", false_value,
                   MakeGuard(GuardRelease(constr_stack_),
                             ConstrExpr(Not(Top.r[1]), FALSE, Top.node)),
                   1, Append(Top.r, ret))
    [] Top.pc = 3 ->
         LET res == IfThenElseExprResult(heap, cond, true_value, false_value,
                                         Top.r[1], Top.r[2], ret)
         IN Return(GuardRelease(constr_stack_), res.result, res.heap,
                   Append(Top.r, ret))

\* PrimExpr VisitExpr_(const tir::SelectNode *op)
MutatorSelect ==
  /\ Running("mutator", "Select")
  /\ MutatorIfThenElseExpr(op.condition, op.true_value, op.false_value)

\* Base::VisitExpr_(const CallNode *op) of tir::ExprMutator: the arguments
\* are rewritten in order; the call is rebuilt if one of them changed.
BaseCallResult(h, n, args) ==
  IF args = h[n].args THEN Reuse(h, n) ELSE Alloc(h, Call(h[n].op, args))

\* PrimExpr VisitExpr_(const tir::CallNode *op)
MutatorCall ==
  /\ Running("mutator", "Call")
  /\ IF op.op = "tir.if_then_else"
     THEN MutatorIfThenElseExpr(op.args[1], op.args[2], op.args[3])
     ELSE LET rs == IF Top.pc = 0 THEN <<>> ELSE Append(Top.r, ret) IN
          IF Top.pc < Len(op.args)
          THEN CallChild("args", op.args[Top.pc + 1], constr_stack_, 0, rs)
          ELSE LET res == BaseCallResult(heap, Top.node, rs)
               IN Return(constr_stack_, res.result, res.heap, rs)

LetStmtResult(h, n, value, body) ==
  IF value = h[n].value /\ body = h[n].body
  THEN Reuse(h, n)
  ELSE Alloc(h, LetStmt(h[n].var, value, body))

\* tir::Stmt VisitStmt_(const tir::LetStmtNode *op)
MutatorLetStmt ==
  /\ Running("mutator", "LetStmt")
  /\ CASE Top.pc = 0 ->
            CallChild("value", op.value, constr_stack_, 0, <<>>)
       [] Top.pc = 1 ->
            CallChild("body", op.body,
                      MakeGuard(constr_stack_,
                                ConstrBindValue(op.var, Ref(ret), Top.node)),
                      1, <<ret>>)
       [] Top.pc = 2 ->
            LET res == LetStmtResult(heap, Top.node, Top.r[1], ret)
            IN Return(GuardRelease(constr_stack_), res.result, res.heap,
                      Append(Top.r, ret))

AttrStmtResult(h, n, value, body) ==
  IF value = h[n].value /\ body = h[n].body
  THEN Reuse(h, n)
  ELSE Alloc(h, AttrStmt(h[n].node, h[n].attr_key, value, body))

\* tir::Stmt VisitStmt_(const tir::AttrStmtNode *op): value and body are
\* visited first; the guard lives in the block of the if that follows.
MutatorAttrStmt ==
  /\ Running("mutator", "AttrStmt")
  /\ CASE Top.pc = 0 ->
            CallChild("value", op.value, constr_stack_, 0, <<>>)
       [] Top.pc = 1 ->
            CallChild("body", op.body, constr_stack_, 0, <<ret>>)
       [] Top.pc = 2 ->
            LET value == Top.r[1]
                body == ret
                res == AttrStmtResult(heap, Top.node, value, body)
            IN IF op.attr_key = "tl.assume"
               THEN LocalStep(MakeGuard(constr_stack_,
                                        ConstrExpr(Ref(op.node), TRUE,
                                                   Top.node)),
                              1, <<value, body>>)
               ELSE IF op.attr_key \in {"thread_extent", "virtual_thread"}
               THEN LocalStep(MakeGuard(constr_stack_,
                                        ConstrBindRange(
                                          heap[op.node].var,
                                          FromMinExtent(make_zero, Ref(value)),
                                          Top.node)),
                              1, <<value, body>>)
               ELSE Return(constr_stack_, res.result, res.heap,
                           <<value, body>>)
       [] Top.pc = 3 ->
            LET res == AttrStmtResult(heap, Top.node, Top.r[1], Top.r[2])
            IN Return(GuardRelease(constr_stack_), res.result, res.heap, Top.r)

AssertStmtResult(h, n, condition, message, body) ==
  IF condition = h[n].condition /\ message = h[n].message /\ body = h[n].body
  THEN Reuse(h, n)
  ELSE Alloc(h, AssertStmt(condition, message, body))

\* tir::Stmt VisitStmt_(const tir::AssertStmtNode *op)
MutatorAssertStmt ==
  /\ Running("mutator", "AssertStmt")
  /\ CASE Top.pc = 0 ->
            CallChild("condition", op.condition, constr_stack_, 0, <<>>)
       [] Top.pc = 1 ->
            CallChild("message", op.message,
                      MakeGuard(constr_stack_,
                                ConstrExpr(Ref(ret), FALSE, Top.node)),
                      1, <<ret>>)
       [] Top.pc = 2 ->
            CallChild("body", op.body, constr_stack_, 1, Append(Top.r, ret))
       [] Top.pc = 3 ->
            LET res == AssertStmtResult(heap, Top.node, Top.r[1], Top.r[2], ret)
            IN Return(GuardRelease(constr_stack_), res.result, res.heap,
                      Append(Top.r, ret))

IfThenElseResult(h, n, condition, then_case, else_case) ==
  IF condition = h[n].condition /\ then_case = h[n].then_case
     /\ (h[n].else_case = Null \/ else_case = h[n].else_case)
  THEN Reuse(h, n)
  ELSE IF h[n].else_case # Null
       THEN Alloc(h, IfThenElse(condition, then_case, else_case))
       ELSE Alloc(h, IfThenElse(condition, then_case, Null))

\* tir::Stmt VisitStmt_(const tir::IfThenElseNode *op)
MutatorIfThenElse ==
  /\ Running("mutator", "IfThenElse")
  /\ CASE Top.pc = 0 ->
            CallChild("condition", op.condition, constr_stack_, 0, <<>>)
       [] Top.pc = 1 ->
            CallChild("then_case", op.then_case,
                      MakeGuard(constr_stack_,
                                ConstrExpr(Ref(ret), FALSE, Top.node)),
                      1, <<ret>>)
       [] Top.pc = 2 ->
            IF op.else_case # Null
            THEN CallChild("else_case", op.else_case,
                           MakeGuard(GuardRelease(constr_stack_),
                                     ConstrExpr(Not(Top.r[1]), FALSE,
                                                Top.node)),
                           1, Append(Top.r, ret))
            ELSE LET res == IfThenElseResult(heap, Top.node, Top.r[1], ret,
                                             Null)
                 IN Return(GuardRelease(constr_stack_), res.result, res.heap,
                           Append(Top.r, ret))
       [] Top.pc = 3 ->
            LET res == IfThenElseResult(heap, Top.node, Top.r[1], Top.r[2], ret)
            IN Return(GuardRelease(constr_stack_), res.result, res.heap,
                      Append(Top.r, ret))

ForResult(h, n, min, extent, body) ==
  IF min = h[n].min /\ extent = h[n].extent /\ body = h[n].body
  THEN Reuse(h, n)
  ELSE Alloc(h, For(h[n].loop_var, min, extent, h[n].fkind, body,
                    h[n].thread_binding, h[n].annotations))

\* tir::Stmt VisitStmt_(const tir::ForNode *op): both arms of the test on
\* op->kind push the same two guards and visit the body.
MutatorFor ==
  /\ Running("mutator", "For")
  /\ CASE Top.pc = 0 ->
            CallChild("min", op.min, constr_stack_, 0, <<>>)
       [] Top.pc = 1 ->
            CallChild("extent", op.extent, constr_stack_, 0, <<ret>>)
       [] Top.pc = 2 ->
            LET min == Top.r[1]
                extent == ret
                guard_1 == ConstrBindRange(
                             op.loop_var,
                             FromMinExtent(Ref(min), Ref(extent)), Top.node)
                guard_2 == ConstrExpr(GT0(extent), FALSE, Top.node)
            IN IF op.fkind \in {"kParallel", "kVectorized"}
               THEN CallChild("body", op.body,
                              MakeGuard(MakeGuard(constr_stack_, guard_1),
                                        guard_2),
                              2, <<min, extent>>)
               ELSE CallChild("body", op.body,
                              MakeGuard(MakeGuard(constr_stack_, guard_1),
                                        guard_2),
                              2, <<min, extent>>)
       [] Top.pc = 3 ->
            LET res == ForResult(heap, Top.node, Top.r[1], Top.r[2], ret)
            IN Return(ReleaseGuards(constr_stack_, 2), res.result, res.heap,
                      Append(Top.r, ret))

WhileResult(h, n, condition, body) ==
  IF condition = h[n].condition /\ body = h[n].body
  THEN Reuse(h, n)
  ELSE Alloc(h, While(condition, body))

\* The guard of the body made over op->condition in place of the rewritten
\* condition.
MutatorWhileOriginalCondition ==
  /\ Running("mutator", "While")
  /\ CASE Top.pc = 0 ->
            CallChild("condition", op.condition, constr_stack_, 0, <<>>)
       [] Top.pc = 1 ->
            CallChild("body", op.body,
                      MakeGuard(constr_stack_,
                                ConstrExpr(Ref(op.condition), FALSE, Top.node)),
                      1, <<ret>>)
       [] Top.pc = 2 ->
            LET res == WhileResult(heap, Top.node, Top.r[1], ret)
            IN Return(GuardRelease(constr_stack_), res.result, res.heap,
                      Append(Top.r, ret))

\* tir::Stmt VisitStmt_(const tir::WhileNode *op)
MutatorWhile ==
  /\ Running("mutator", "While")
  /\ CASE Top.pc = 0 ->
            CallChild("condition", op.condition, constr_stack_, 0, <<>>)
       [] Top.pc = 1 ->
            CallChild("body", op.body,
                      MakeGuard(constr_stack_,
                                ConstrExpr(Ref(ret), FALSE, Top.node)),
                      1, <<ret>>)
       [] Top.pc = 2 ->
            LET res == WhileResult(heap, Top.node, Top.r[1], ret)
            IN Return(GuardRelease(constr_stack_), res.result, res.heap,
                      Append(Top.r, ret))

Next ==
  \/ StartWalk
  \/ VisitorLeaf
  \/ MutatorLeaf
  \/ Unwind
  \/ VisitorSelect
  \/ VisitorCall
  \/ VisitorLetStmt
  \/ VisitorAttrStmt
  \/ VisitorAssertStmt
  \/ VisitorIfThenElse
  \/ VisitorFor
  \/ VisitorWhile
  \/ MutatorSelect
  \/ MutatorCall
  \/ MutatorLetStmt
  \/ MutatorAttrStmt
  \/ MutatorAssertStmt
  \/ MutatorIfThenElse
  \/ MutatorFor
  \/ MutatorWhile

Spec == Init /\ [][Next]_vars

(***************************************************************************)
(* A pass working with a ConstrSet and an analyzer of its own.             *)
(***************************************************************************)
wvars == <<walker, mode, constr_stack_, ctrl, heap, ret, visited, last_return,
           walks, rewrites>>

SetInit ==
  /\ walker = "visitor"
  /\ mode = "idle"
  /\ constr_stack_ = <<>>
  /\ ctrl = <<>>
  /\ heap = Forest
  /\ ret = Null
  /\ visited = <<>>
  /\ last_return = NoReturn
  /\ walks = 0
  /\ rewrites = 0
  /\ constrs_ = <<>>
  /\ analyzer = <<>>
  /\ last_call = NoCall
  /\ inserted = <<>>
  /\ proved = NoneProved

\* set.AddConstr(args...)
DoAddConstr ==
  /\ Len(constrs_) < MaxSetLen
  /\ \E c \in FactPool :
       /\ constrs_' = AddConstr(constrs_, c)
       /\ inserted' = Append(inserted, c)
  /\ last_call' = [op |-> "AddConstr"]
  /\ proved' = NoneProved
  /\ UNCHANGED <<analyzer, wvars>>

\* set.Extend(other)
DoExtend ==
  /\ \E n \in 1..MaxSetLen : \E other \in [1..n -> FactPool] :
       /\ Len(constrs_) + n <= MaxSetLen
       /\ constrs_' = Extend(constrs_, other)
       /\ inserted' = inserted \o other
  /\ last_call' = [op |-> "Extend"]
  /\ proved' = NoneProved
  /\ UNCHANGED <<analyzer, wvars>>

\* set.Substitute(subs)
DoSubstitute ==
  /\ constrs_ # <<>>
  /\ \E k \in 1..Len(SubsPool) :
       last_call' = [op |-> "Substitute", set |-> constrs_,
                     subs |-> SubsPool[k],
                     out |-> ConstrSetSubstitute(constrs_, SubsPool[k])]
  /\ UNCHANGED <<constrs_, analyzer, inserted, proved, wvars>>

\* set.Populate(analyzer) on the analyzer of the pass
DoPopulate ==
  /\ constrs_ # <<>>
  /\ Len(analyzer) + Len(constrs_) <= MaxCalls
  /\ analyzer' = ConstrSetPopulate(constrs_, analyzer)
  /\ last_call' = [op |-> "Populate", set |-> constrs_, held |-> analyzer]
  /\ UNCHANGED <<constrs_, inserted, proved, wvars>>

\* c.Populate(analyzer) of a single fact on the analyzer of the pass
DoConstrPopulate ==
  /\ Len(analyzer) < MaxCalls
  /\ \E c \in FactPool :
       /\ analyzer' = ConstrPopulate(c, analyzer)
       /\ last_call' = [op |-> "Constr::Populate", set |-> <<c>>,
                        held |-> analyzer]
  /\ UNCHANGED <<constrs_, inserted, proved, wvars>>

\* c.ToGenericConstr() of a fact of the set
DoToGenericConstr ==
  /\ \E i \in 1..Len(constrs_) :
       last_call' = [op |-> "ToGenericConstr", c |-> constrs_[i],
                     out |-> ToGenericConstr(constrs_[i])]
  /\ UNCHANGED <<constrs_, analyzer, inserted, proved, wvars>>

\* set.CanProve(expr)
DoCanProve ==
  /\ \E q \in Queries :
       LET out == IF ConstrSetCanProve(constrs_, QueryPool[q], analyzer)
                  THEN "true" ELSE "false"
       IN /\ last_call' = [op |-> "CanProve", set |-> constrs_,
                           held |-> analyzer, q |-> q, out |-> out,
                           repeat |-> (proved[q] # "none")]
          /\ proved' = IF proved[q] = "none"
                       THEN [proved EXCEPT ![q] = out] ELSE proved
  /\ UNCHANGED <<constrs_, analyzer, inserted, wvars>>

SetNext ==
  \/ DoAddConstr
  \/ DoExtend
  \/ DoSubstitute
  \/ DoPopulate
  \/ DoConstrPopulate
  \/ DoToGenericConstr
  \/ DoCanProve

SetSpec == SetInit /\ [][SetNext]_vars

(***************************************************************************)
(* Properties.                                                             *)
(***************************************************************************)
Entries == 1..Len(visited)

\* The expression a fact is built from: the walker's own, i.e. child i as
\* rewritten by the mutator, the original child in the visitor.
Walked(e, i, orig) == IF walker = "mutator" THEN e.pnews[i] ELSE orig

\* The facts the scoping rules attach to the child visited in entry e.
ScopeFacts(e) ==
  LET s == e.parent
      p == Forest[s]
      cond == IF p.kind = "Call" THEN p.args[1] ELSE p.condition
  IN
  CASE e.role \in {"true_value", "then_case"} ->
         <<ConstrExpr(Ref(Walked(e, 1, cond)), FALSE, s)>>
    [] e.role \in {"false_value", "else_case"} ->
         <<ConstrExpr(Not(Walked(e, 1, cond)), FALSE, s)>>
    [] e.role = "body" /\ p.kind = "LetStmt" ->
         <<ConstrBindValue(p.var, Ref(Walked(e, 1, p.value)), s)>>
    [] e.role = "body" /\ p.kind = "AttrStmt" ->
         IF p.attr_key = "tl.assume"
         THEN <<ConstrExpr(Ref(p.node), TRUE, s)>>
         ELSE IF p.attr_key \in {"thread_extent", "virtual_thread"}
         THEN <<ConstrBindRange(Forest[p.node].var,
                                FromMinExtent(make_zero,
                                              Ref(Walked(e, 1, p.value))), s)>>
         ELSE <<>>
    [] e.role = "body" /\ p.kind = "AssertStmt" ->
         <<ConstrExpr(Ref(Walked(e, 1, p.condition)), FALSE, s)>>
    [] e.role = "body" /\ p.kind = "For" ->
         <<ConstrBindRange(p.loop_var,
                           FromMinExtent(Ref(Walked(e, 1, p.min)),
                                         Ref(Walked(e, 2, p.extent))), s),
           ConstrExpr(GT0(Walked(e, 2, p.extent)), FALSE, s)>>
    [] e.role = "body" /\ p.kind = "While" ->
         <<ConstrExpr(Ref(Walked(e, 1, p.condition)), FALSE, s)>>
    [] OTHER -> <<>>

\* The children of a construct of kind k are visited under exactly the facts
\* the scoping rules attach to them, on top of the construct's entry stack.
ScopedChildren(k) ==
  \A i \in Entries :
    (visited[i].role # "root" /\ Forest[visited[i].parent].kind = k)
      => visited[i].stack = visited[i].pentry \o ScopeFacts(visited[i])

\* C1 (scope balance): when a walk that started with an empty constr_stack_
\* has ended, by normal completion or by an error thrown from a leaf visit,
\* constr_stack_ is empty.
C1_ScopeBalance == mode \in {"done", "aborted"} => constr_stack_ = <<>>

\* Reached: a walk aborted by a leaf that threw under at least two facts.
C1_Witness ==
  /\ mode = "aborted"
  /\ Len(visited[Len(visited)].stack) >= 2

\* C2 (non-leak): every node is visited with exactly the facts of the
\* constructs on its root path: the stack at a child's visit is the parent's
\* entry stack plus the facts the parent's rule attaches to that child (none
\* for a condition, a bound value, loop bounds or an assert message), and a
\* construct's facts are gone when its visit has been left.
C2_NonLeak ==
  /\ \A i \in Entries :
       visited[i].role # "root"
         => visited[i].stack = visited[i].pentry \o ScopeFacts(visited[i])
  /\ last_return.how # "none" => last_return.exit = last_return.entry

\* C3 (mutual exclusion): the stack never holds both the fact cond and the
\* fact not(cond) pushed by the same branch point.
C3_MutualExclusion ==
  \A i, j \in 1..Len(constr_stack_) :
    ~ /\ constr_stack_[i].site = constr_stack_[j].site
      /\ constr_stack_[i].kind = "kConstr"
      /\ constr_stack_[j].kind = "kConstr"
      /\ constr_stack_[i].value.t = "node"
      /\ constr_stack_[j].value = Not(constr_stack_[i].value.e)

\* Reached: the false/else branch of a branch point is being visited under
\* not(cond), inside another scope.
C3_Witness ==
  /\ mode = "run"
  /\ Len(constr_stack_) >= 2
  /\ constr_stack_[Len(constr_stack_)].value.t = "not"
  /\ visited[Len(visited)].role \in {"false_value", "else_case"}

\* C4 (strict LIFO nesting): when control leaves the visit of a node, by
\* return or by an error propagating out of it, the stack is the stack at
\* entry to that node.
C4_StrictLIFO ==
  last_return.how # "none" => last_return.exit = last_return.entry

\* Reached: an error propagates out of a For visit that was entered under a
\* fact of an enclosing construct and held its two guards.
C4_Witness ==
  /\ last_return.how = "unwind"
  /\ Forest[last_return.node].kind = "For"
  /\ last_return.entry # <<>>
  /\ Len(visited[Len(visited)].stack) >= Len(last_return.entry) + 2

\* C5 (identity preservation): when the mutator leaves one of the constructs
\* it overrides with every rewritten child identical to the original child,
\* it returns the original node object and allocates no node.
C5_IdentityPreservation ==
  ( /\ walker = "mutator"
    /\ last_return.how = "return"
    /\ \/ Forest[last_return.node].kind \in
            {"Select", "LetStmt", "AttrStmt", "AssertStmt", "IfThenElse",
             "For", "While"}
       \/ /\ Forest[last_return.node].kind = "Call"
          /\ Forest[last_return.node].op = "tir.if_then_else"
    /\ last_return.news = Children(Forest, last_return.node) )
  => /\ last_return.result = last_return.node
     /\ ~last_return.fresh

\* C6 (attribute scope): the body of an assume attribute is visited with
\* BooleanFact(p, isAssumption) on the stack, the body of a thread-extent or
\* virtual-thread attribute with RangeBinding(iterVar, [0, value)); no fact
\* is pushed for another key; the fact is gone when the visit has returned.
C6_AttributeScope ==
  /\ \A i \in Entries :
       LET e == visited[i] IN
       (e.role = "body" /\ Forest[e.parent].kind = "AttrStmt")
         => IF ScopeFacts(e) = <<>>
            THEN \A k \in 1..Len(e.stack) : e.stack[k].site # e.parent
            ELSE \E k \in 1..Len(e.stack) : e.stack[k] = ScopeFacts(e)[1]
  /\ (last_return.how = "return"
      /\ Forest[last_return.node].kind = "AttrStmt")
       => last_return.exit = last_return.entry

\* C7 (exactly-once visiting): a completed walk of the visitor has visited
\* every node of the tree exactly once and has left the tree as it was.
C7_ExactlyOnce ==
  (walker = "visitor" /\ mode = "done")
    => /\ \A n \in Subtree(Forest, visited[1].node) :
            Cardinality({i \in Entries : visited[i].node = n}) = 1
       /\ heap = Forest

\* C8 (assertion statement): condition and message of an assert are visited
\* with the entry stack, the body with BooleanFact(condition) on top of it.
C8_AssertScope == ScopedChildren("AssertStmt")

\* C9 (let binding): the bound value of a let is visited with the entry
\* stack, the body with ValueBinding(variable, value) on top of it.
C9_LetScope == ScopedChildren("LetStmt")

\* C10 (loop construct): min and extent of a For are visited with the entry
\* stack, the body with RangeBinding(loopVar, [min, min+extent)) and
\* BooleanFact(extent > 0) on top of it, whatever the loop kind.
C10_ForScope == ScopedChildren("For")

\* The visits made by the visit of node n, in the order they were made.
ChildVisits(n) == SelectSeq(visited, LAMBDA e : e.parent = n)

IsCondValue(n) ==
  \/ Forest[n].kind = "Select"
  \/ Forest[n].kind = "Call" /\ Forest[n].op = "tir.if_then_else"

\* C11 (conditional value): a Select and an if_then_else call alike visit
\* the condition first with the entry stack, then the true branch under
\* BooleanFact(condition), then the false branch under
\* BooleanFact(not(condition)), each on top of the entry stack.
C11_ConditionalValue ==
  (last_return.how = "return" /\ IsCondValue(last_return.node))
    => LET cv == ChildVisits(last_return.node)
           operands == Children(Forest, last_return.node)
       IN /\ Len(cv) = 3
          /\ \A i \in 1..3 :
               /\ cv[i].node = operands[i]
               /\ cv[i].role = <<"condition", "true_value", "false_value">>[i]
               /\ cv[i].stack = last_return.entry \o ScopeFacts(cv[i])

\* The boolean fact the node at site pushes over expression x.
BooleanFact(x, site) ==
  [kind |-> "kConstr", is_assume |-> FALSE, var |-> "", value |-> x,
   range |-> [min |-> [t |-> "null", e |-> 0],
              extent |-> [t |-> "null", e |-> 0]],
   site |-> site]

\* C12 (conditional statement): the then-branch of an IfThenElse is visited
\* under BooleanFact(condition) on top of the entry stack, the else-branch,
\* when present, under BooleanFact(not(condition)); an IfThenElse without
\* else-branch pushes one fact only, that of its then-branch.
C12_ConditionalStmt ==
  /\ \A i \in Entries :
       LET e == visited[i] IN
       /\ e.role = "then_case"
            => e.stack = Append(e.pentry,
                 BooleanFact([t |-> "node",
                              e |-> Walked(e, 1, Forest[e.parent].condition)],
                             e.parent))
       /\ e.role = "else_case"
            => e.stack = Append(e.pentry,
                 BooleanFact([t |-> "not",
                              e |-> Walked(e, 1, Forest[e.parent].condition)],
                             e.parent))
  /\ \A k \in 1..Len(constr_stack_) :
       LET s == constr_stack_[k].site IN
       (Forest[s].kind = "IfThenElse" /\ Forest[s].else_case = Null)
         => /\ constr_stack_[k].value.t = "node"
            /\ \A j \in 1..Len(constr_stack_) :
                 constr_stack_[j].site = s => j = k
  /\ ( /\ last_return.how = "return"
       /\ Forest[last_return.node].kind = "IfThenElse"
       /\ Forest[last_return.node].else_case = Null )
     => LET cv == ChildVisits(last_return.node) IN
        /\ Cardinality({i \in 1..Len(cv) : cv[i].role = "then_case"}) = 1
        /\ \A i \in 1..Len(cv) : cv[i].stack # last_return.entry
                                   => cv[i].role = "then_case"

\* Reached: the mutator has left an IfThenElse without else-branch nested in
\* other scopes, which it rebuilt because a child changed.
C12_Witness ==
  /\ last_return.how = "return"
  /\ Forest[last_return.node].kind = "IfThenElse"
  /\ Forest[last_return.node].else_case = Null
  /\ last_return.entry # <<>>
  /\ walker = "mutator"
  /\ last_return.fresh

IsNew(n) == n > Len(Forest)

\* The rewritten node new stands for the original node orig, is a new
\* object, and differs from orig in one child only, which is rewritten the
\* same way, down to the replaced leaf; every other child is the original.
RECURSIVE SharedPath(_, _, _)
SharedPath(h, new, orig) ==
  /\ IsNew(new)
  /\ \/ IsLeaf(Forest, orig)
     \/ LET cs == Children(Forest, orig)
            ns == Children(h, new)
        IN /\ Len(ns) = Len(cs)
           /\ \E i \in 1..Len(cs) :
                /\ \A j \in 1..Len(cs) : j # i => ns[j] = cs[j]
                /\ SharedPath(h, ns[i], cs[i])

\* Number of nodes on the path from orig down to the replaced leaf.
RECURSIVE PathLen(_, _, _)
PathLen(h, new, orig) ==
  IF IsLeaf(Forest, orig) THEN 1
  ELSE LET cs == Children(Forest, orig)
           ns == Children(h, new)
           i == CHOOSE k \in 1..Len(cs) : ns[k] # cs[k]
       IN 1 + PathLen(h, ns[i], cs[i])

\* C13 (structural sharing on change): after a rewrite in which one leaf was
\* replaced, the new objects are exactly the nodes on the path from that
\* leaf to the root, and each of them holds the original objects for all its
\* other children.
C13_StructuralSharing ==
  (walker = "mutator" /\ mode = "done" /\ rewrites = 1)
    => /\ SharedPath(heap, ret, visited[1].node)
       /\ Len(heap) - Len(Forest) = PathLen(heap, ret, visited[1].node)

\* C18 (facts from rewritten expressions): in the mutator the children that
\* define a fact are rewritten first, with the entry stack, and the guarded
\* child is visited under the fact built from the rewritten expression: the
\* branches of a conditional value or statement, the body of a let, of a
\* While and of a For.
C18_RewrittenFacts ==
  walker = "mutator"
    => \A i \in Entries :
         LET e == visited[i] IN
         (e.role # "root"
          /\ Forest[e.parent].kind \in
               {"Select", "Call", "IfThenElse", "LetStmt", "While", "For"})
           => /\ e.stack = e.pentry \o ScopeFacts(e)
              /\ e.role \in {"condition", "value", "min", "extent"}
                   => e.stack = e.pentry

\* Reached: the body of a For is visited under the facts of an extent that
\* the rewrite replaced by a new object.
C18_Witness ==
  /\ walker = "mutator"
  /\ mode = "run"
  /\ visited[Len(visited)].role = "body"
  /\ Forest[visited[Len(visited)].parent].kind = "For"
  /\ IsNew(visited[Len(visited)].pnews[2])
  /\ constr_stack_[Len(constr_stack_)].value
       = [t |-> "gt0", e |-> visited[Len(visited)].pnews[2]]

\* C19 (fields kept on reconstruction): when a child changed, the mutator
\* returns a new node of the kind of the original, built from the rewritten
\* children, with the fields it does not recurse into equal to the
\* original's; a Select stays a Select and an if_then_else call a call.
C19_FieldsPreserved ==
  ( /\ walker = "mutator"
    /\ last_return.how = "return"
    /\ ~IsLeaf(Forest, last_return.node)
    /\ (Forest[last_return.node].kind = "Call" => IsCondValue(last_return.node))
    /\ last_return.news # Children(Forest, last_return.node) )
  => LET o == Forest[last_return.node]
         n == heap[last_return.result]
     IN /\ last_return.fresh
        /\ IsNew(last_return.result)
        /\ n.kind = o.kind
        /\ Children(heap, last_return.result) = last_return.news
        /\ o.kind = "For" => /\ n.loop_var = o.loop_var
                             /\ n.fkind = o.fkind
                             /\ n.thread_binding = o.thread_binding
                             /\ n.annotations = o.annotations
        /\ o.kind = "AttrStmt" => n.node = o.node /\ n.attr_key = o.attr_key
        /\ o.kind = "LetStmt" => n.var = o.var
        /\ o.kind = "Call" => n.op = o.op

IsPrefix(s, t) == Len(s) <= Len(t) /\ SubSeq(t, 1, Len(s)) = s

\* C20 (entry stack kept): while the subtree of a node is visited, the stack
\* at entry to that node is a prefix of the stack; the walker appends above
\* it and pops only what it appended.
C20_EntryPrefix ==
  \A f \in 1..Len(ctrl) : IsPrefix(ctrl[f].entry, constr_stack_)

\* Reached: three visits deep, with two facts at entry to the innermost node
\* and more facts on the stack than at entry to the second.
C20_Witness ==
  /\ mode = "run"
  /\ Len(ctrl) >= 3
  /\ Len(Top.entry) >= 2
  /\ Len(constr_stack_) > Len(ctrl[2].entry)

(***************************************************************************)
(* Properties of Constr and ConstrSet, under SetSpec.                      *)
(***************************************************************************)
\* What fact c states about the variables, 1 if it holds under env.
HoldsNum(c, env) ==
  CASE c.kind = "kConstr" -> Eval(c.value, env)
    [] c.kind = "kBindValue" ->
         IF env[c.var] = Eval(c.value, env) THEN 1 ELSE 0
    [] c.kind = "kBindRange" ->
         IF /\ Eval(c.range.min, env) <= env[c.var]
            /\ env[c.var]
                 < Eval(c.range.min, env) + Eval(c.range.extent, env)
         THEN 1 ELSE 0

\* The values of the variables after the mapping subs has been applied.
SubEnv(env, subs) ==
  [v \in SetVars |-> IF v \in DOMAIN subs THEN Eval(subs[v], env) ELSE env[v]]

\* C14 (substitution): Substitute returns a set of the same length and
\* order whose i-th element is a boolean fact (kConstr) that states, of the
\* substituted variables, what the i-th original fact states, whatever its
\* kind; the original set is left as it was.
C14_Substitute ==
  last_call.op = "Substitute"
    => /\ Len(last_call.out) = Len(last_call.set)
       /\ constrs_ = last_call.set
       /\ \A i \in 1..Len(last_call.set) :
            /\ last_call.out[i].kind = "kConstr"
            /\ \A env \in Envs :
                 Eval(last_call.out[i].value, env)
                   = HoldsNum(last_call.set[i], SubEnv(env, last_call.subs))

\* Reached: a range binding followed by a value binding, substituted under
\* a mapping of both variables.
C14_Witness ==
  /\ last_call.op = "Substitute"
  /\ Len(last_call.set) = 2
  /\ last_call.set[1].kind = "kBindRange"
  /\ last_call.set[2].kind = "kBindValue"
  /\ DOMAIN last_call.subs = {"x", "y"}

\* The analyzer call that replays fact c.
ExpectedCall(c) ==
  CASE c.kind = "kConstr" -> [EnterConstraint |-> c.value]
    [] c.kind = "kBindValue" -> [Bind |-> c.var, value |-> c.value]
    [] c.kind = "kBindRange" -> [Bind |-> c.var, range |-> c.range]

\* C15 (populate order): the set holds the facts in the order AddConstr and
\* Extend received them, duplicates included, and Populate makes one
\* analyzer call per fact in that order: EnterConstraint(value) for a
\* boolean fact, Bind(var, value) for a value binding, Bind(var, range) for
\* a range binding.
C15_PopulateOrder ==
  /\ constrs_ = inserted
  /\ last_call.op \in {"Populate", "Constr::Populate"}
       => /\ Len(analyzer) = Len(last_call.held) + Len(last_call.set)
          /\ SubSeq(analyzer, 1, Len(last_call.held)) = last_call.held
          /\ \A i \in 1..Len(last_call.set) :
               analyzer[Len(last_call.held) + i]
                 = ExpectedCall(last_call.set[i])

\* Reached: a set of two facts of different kinds replayed into the
\* analyzer.
C15_Witness ==
  /\ last_call.op = "Populate"
  /\ Len(last_call.set) = 2
  /\ last_call.set[1].kind # last_call.set[2].kind

\* C16 (CanProve without side effect): a CanProve call leaves the fact
\* sequence of the set and the analyzer of the caller as they were, and
\* returns what the first call with this set and expression returned,
\* whatever was done to the caller's analyzer in between.
C16_CanProvePure ==
  last_call.op = "CanProve"
    => /\ constrs_ = last_call.set
       /\ analyzer = last_call.held
       /\ last_call.out = proved[last_call.q]

\* Reached: a repeated query that is not provable, put while the analyzer
\* of the caller holds facts.
C16_Witness ==
  /\ last_call.op = "CanProve"
  /\ last_call.repeat
  /\ last_call.out = "false"
  /\ analyzer # <<>>

\* C17 (generic predicate): for all values of the variables the predicate
\* of ValueBinding(v, e) holds exactly when v = e, that of
\* RangeBinding(v, m, ext) exactly when m <= v < m + ext, and the
\* predicate of a boolean fact is its own expression.
C17_GenericPredicate ==
  last_call.op = "ToGenericConstr"
    => /\ \A env \in Envs :
            Eval(last_call.out, env) = HoldsNum(last_call.c, env)
       /\ last_call.c.kind = "kConstr" => last_call.out = last_call.c.value

\* Reached: the predicate of a range binding whose lower bound is a
\* variable.
C17_Witness ==
  /\ last_call.op = "ToGenericConstr"
  /\ last_call.c.kind = "kBindRange"
  /\ Is(last_call.c.range.min, "var")

====
